---- MODULE Spec2Model ----
(***************************************************************************)
(* DNS Analyzer (dns_analyzer/core.py): DNSAnalyzer.__init__, .run and the *)
(* helpers _severity_rank, _check_best_practices, _query_and_collect and   *)
(* _err, as a state machine over one analyzer object and the DNS data the  *)
(* resolver sees.  Strings are TLA+ strings; the substring tests, lower(), *)
(* upper(), split(), strip(), count() and join() of the code are computed  *)
(* character by character.                                                 *)
(***************************************************************************)
EXTENDS Integers, Sequences, FiniteSets, TLC

\* ------------------------------------------------------------------ bounds
\* longest domain list handed to the constructor
MaxDomains == 2
\* longest DKIM selector list handed to the constructor
MaxSelectors == 2
\* longest explicit record-type list handed to run
MaxTypes == 2
\* calls of run on the one analyzer
MaxRuns == 2

\* ------------------------------------------------------- python str helpers
UpperLetters == "ABCDEFGHIJKLMNOPQRSTUVWXYZ"
LowerLetters == "abcdefghijklmnopqrstuvwxyz"
Digits == "0123456789"
Whitespace == {" ", "\t", "\n", "\r"}

CharAt(s, i) == SubSeq(s, i, i)

\* The element of a one-element set.  Only({e(x) : x \in {d}}) is e with x
\* standing for the value of d: it is "LET x == d IN e" with d evaluated once.
Only(S) == CHOOSE x \in S : TRUE

\* position of the one-character string c in the string alphabet, 0 if absent
IndexIn(c, alphabet) ==
    IF \E i \in 1..Len(alphabet) : CharAt(alphabet, i) = c
    THEN CHOOSE i \in 1..Len(alphabet) : CharAt(alphabet, i) = c
    ELSE 0

\* the letters' counterparts in the other case
LowerMap == [c \in {CharAt(UpperLetters, i) : i \in 1..Len(UpperLetters)} |->
               CharAt(LowerLetters, IndexIn(c, UpperLetters))]

UpperMap == [c \in {CharAt(LowerLetters, i) : i \in 1..Len(LowerLetters)} |->
               CharAt(UpperLetters, IndexIn(c, LowerLetters))]

LowerChar(c) == IF c \in DOMAIN LowerMap THEN LowerMap[c] ELSE c

UpperChar(c) == IF c \in DOMAIN UpperMap THEN UpperMap[c] ELSE c

\* str.lower(): a stretch without upper-case letters is its own lower case
RECURSIVE lower(_)
lower(s) ==
    Only({IF \A i \in 1..Len(v) : CharAt(v, i) \notin capitals THEN v
          ELSE IF Len(v) = 1 THEN LowerChar(v)
          ELSE Only({lower(a) \o lower(b) :
                       a \in {SubSeq(v, 1, Len(v) \div 2)},
                       b \in {SubSeq(v, (Len(v) \div 2) + 1, Len(v))}}) :
          v \in {s}, capitals \in {DOMAIN LowerMap}})

\* str.upper()
RECURSIVE upper(_)
upper(s) ==
    Only({IF \A i \in 1..Len(v) : CharAt(v, i) \notin smalls THEN v
          ELSE IF Len(v) = 1 THEN UpperChar(v)
          ELSE Only({upper(a) \o upper(b) :
                       a \in {SubSeq(v, 1, Len(v) \div 2)},
                       b \in {SubSeq(v, (Len(v) \div 2) + 1, Len(v))}}) :
          v \in {s}, smalls \in {DOMAIN UpperMap}})

\* python: sub in s
Contains(sub, s) ==
    \E i \in 1..(Len(s) - Len(sub) + 1) : SubSeq(s, i, i + Len(sub) - 1) = sub

\* sub occurs in s at position i
OccursAt(sub, s, i) == SubSeq(s, i, i + Len(sub) - 1) = sub

\* first position >= from where sub occurs in s, 0 if none (str.find, 1-based)
FindFrom(sub, s, from) ==
    IF \E i \in from..(Len(s) - Len(sub) + 1) : OccursAt(sub, s, i)
    THEN CHOOSE i \in from..(Len(s) - Len(sub) + 1) :
            OccursAt(sub, s, i) /\ \A j \in from..(i - 1) : ~OccursAt(sub, s, j)
    ELSE 0

\* str.count(sub): non-overlapping occurrences, scanning from the left
RECURSIVE CountFrom(_, _, _)
CountFrom(sub, s, from) ==
    Only({IF p = 0 THEN 0 ELSE 1 + CountFrom(sub, s, p + Len(sub)) :
          p \in {FindFrom(sub, s, from)}})

count(sub, s) == CountFrom(sub, s, 1)

\* sep.join(parts)
RECURSIVE join(_, _)
join(sep, parts) ==
    IF Len(parts) = 0 THEN ""
    ELSE IF Len(parts) = 1 THEN parts[1]
    ELSE parts[1] \o sep \o join(sep, Tail(parts))

\* str.strip()
strip(s) ==
    IF \A i \in 1..Len(s) : CharAt(s, i) \in Whitespace THEN ""
    ELSE Only({SubSeq(s, a, b) :
                 a \in {CHOOSE i \in 1..Len(s) :
                           CharAt(s, i) \notin Whitespace
                           /\ \A j \in 1..(i - 1) : CharAt(s, j) \in Whitespace},
                 b \in {CHOOSE i \in 1..Len(s) :
                           CharAt(s, i) \notin Whitespace
                           /\ \A j \in (i + 1)..Len(s) : CharAt(s, j) \in Whitespace}})

\* s.split()[0] when s.split() is not empty, "" when it is: the first
\* whitespace-delimited token
FirstToken(s) ==
    LET t == strip(s)
        ws == {i \in 1..Len(t) : CharAt(t, i) \in Whitespace}
    IN IF ws = {} THEN t
       ELSE SubSeq(t, 1, (CHOOSE i \in ws : \A j \in ws : i <= j) - 1)

\* str.isdigit() on ASCII text
isdigit(s) == Len(s) > 0 /\ \A i \in 1..Len(s) : IndexIn(CharAt(s, i), Digits) > 0

\* int(s) of a string of ASCII digits
RECURSIVE int(_)
int(s) ==
    IF Len(s) = 0 THEN 0
    ELSE 10 * int(SubSeq(s, 1, Len(s) - 1)) + (IndexIn(CharAt(s, Len(s)), Digits) - 1)

\* s.split(sep): the pieces between the non-overlapping occurrences of sep
RECURSIVE SplitFrom(_, _, _)
SplitFrom(sep, s, from) ==
    Only({IF p = 0 THEN <<SubSeq(s, from, Len(s))>>
          ELSE <<SubSeq(s, from, p - 1)>> \o SplitFrom(sep, s, p + Len(sep)) :
          p \in {FindFrom(sep, s, from)}})

split(sep, s) == SplitFrom(sep, s, 1)

\* [f(x) for x in seq if keep(x)] without the map: the kept elements in order
RECURSIVE SelectIdx(_, _)
SelectIdx(n, keepIdx) ==
    IF n = 0 THEN <<>>
    ELSE IF n \in keepIdx THEN Append(SelectIdx(n - 1, keepIdx), n)
    ELSE SelectIdx(n - 1, keepIdx)


\* ------------------------------------------------------------ severity order
\* _severity_rank: {"CRITICAL": 4, "WARN": 3, "INFO": 2, "OK": 1, "": 0}.get(level, 0)
_severity_rank(level) ==
    CASE level = "CRITICAL" -> 4
      [] level = "WARN" -> 3
      [] level = "INFO" -> 2
      [] level = "OK" -> 1
      [] OTHER -> 0

\* severity = level in place of the max
PromoteAssigned(severity, level) == level

\* max(severity, level, key=_severity_rank): python's max keeps the first of
\* two arguments of equal key
Promote(severity, level) ==
    IF _severity_rank(level) > _severity_rank(severity) THEN level ELSE severity

\* --------------------------------------------- ipaddress.ip_address (library)
\* The dotted quad of an IPv4 literal as four numbers, <<>> when addr is none
\* (four decimal fields of 1..3 digits, no leading zero, each at most 255).
IPv4Octets(addr) ==
    LET parts == split(".", addr)
        okPart(p) == /\ isdigit(p)
                     /\ Len(p) <= 3
                     /\ (Len(p) > 1 => CharAt(p, 1) # "0")
                     /\ int(p) <= 255
    IN IF Len(parts) = 4 /\ \A i \in 1..4 : okPart(parts[i])
       THEN [i \in 1..4 |-> int(parts[i])]
       ELSE <<>>

\* IPv4Address.is_private: membership in the library's private networks
IPv4Private(o) ==
    \/ o[1] = 0
    \/ o[1] = 10
    \/ o[1] = 127
    \/ (o[1] = 169 /\ o[2] = 254)
    \/ (o[1] = 172 /\ o[2] \div 16 = 1)
    \/ (o[1] = 192 /\ o[2] = 0 /\ o[3] = 0 /\ o[4] \div 8 = 0)
    \/ (o[1] = 192 /\ o[2] = 0 /\ o[3] = 0 /\ o[4] \in {170, 171})
    \/ (o[1] = 192 /\ o[2] = 0 /\ o[3] = 2)
    \/ (o[1] = 192 /\ o[2] = 168)
    \/ (o[1] = 198 /\ o[2] \in {18, 19})
    \/ (o[1] = 198 /\ o[2] = 51 /\ o[3] = 100)
    \/ (o[1] = 203 /\ o[2] = 0 /\ o[3] = 113)
    \/ o[1] >= 240

\* An IPv6 literal, as far as the model reads one: hexadecimal digits and
\* colons with at least two colons.
IPv6Literal(addr) ==
    /\ count(":", addr) >= 2
    /\ \A i \in 1..Len(addr) : IndexIn(LowerChar(CharAt(addr, i)), "0123456789abcdef:") > 0

\* IPv6Address.is_private for the literals above: loopback, unspecified,
\* fc00::/7, fe80::/10 and the documentation prefix 2001:db8::/32
IPv6Private(addr) ==
    LET a == lower(addr)
        first == split(":", a)[1]
    IN \/ a \in {"::1", "::"}
       \/ (Len(first) = 4 /\ SubSeq(first, 1, 2) \in {"fc", "fd"})
       \/ (Len(first) = 4 /\ SubSeq(first, 1, 3) \in {"fe8", "fe9", "fea", "feb"})
       \/ (Len(a) >= 9 /\ SubSeq(a, 1, 9) = "2001:db8:")

\* ipaddress.ip_address(addr) raises ValueError
NotAnAddress(addr) == IPv4Octets(addr) = <<>> /\ ~IPv6Literal(addr)

\* ipaddress.ip_address(addr).is_private, for an addr that parses
is_private(addr) ==
    IF IPv4Octets(addr) # <<>> THEN IPv4Private(IPv4Octets(addr)) ELSE IPv6Private(addr)

\* ------------------------------------------------- _check_best_practices
\* One statement pair "severity = ... ; issues.append(...)" of the rule
\* engine: whether its condition holds, whether the severity is assigned
\* (severity = X) or promoted (max(severity, X, key=_severity_rank)), the
\* level X and the appended text.
RuleUnexplained(fires, assigned, level, text) ==
    [fires |-> fires, assigned |-> assigned, level |-> level, text |-> ""]

Rule(fires, assigned, level, text) ==
    [fires |-> fires, assigned |-> assigned, level |-> level, text |-> text]

\* the statement pairs of one branch executed in order, from (severity, issues)
RECURSIVE ApplyRules(_, _, _)
ApplyRules(rules, severity, issues) ==
    IF Len(rules) = 0 THEN [severity |-> severity, issues |-> issues]
    ELSE Only({IF r.fires
               THEN Only({ApplyRules(rest, raised, Append(issues, r.text)) :
                            raised \in {IF r.assigned THEN r.level
                                        ELSE Promote(severity, r.level)}})
               ELSE ApplyRules(rest, severity, issues) :
               r \in {Head(rules)}, rest \in {Tail(rules)}})

\* the text between the last "p=" of val and the next ";", stripped:
\* val.split("p=")[-1].split(";")[0].strip()
DkimKeyPart(val) ==
    LET pieces == split("p=", val)
    IN strip(split(";", pieces[Len(pieces)])[1])

\* [int(v.split()[0]) for v in values if v.split() and v.split()[0].isdigit()]
MxPriorities(values) ==
    LET keep == {i \in 1..Len(values) : isdigit(FirstToken(values[i]))}
        idx == SelectIdx(Len(values), keep)
    IN [k \in 1..Len(idx) |-> int(FirstToken(values[idx[k]]))]

SpfRules(values, combined) ==
    <<Rule(count("include:", combined) > 10, TRUE, "WARN",
           "SPF con " \o ToString(count("include:", combined))
               \o " include (possibili troppe query)"),
      Rule(Contains("all", combined)
             /\ ~\E s \in {"-all", "~all", "?all"} : Contains(s, combined),
           FALSE, "WARN", "SPF senza suffisso -all/~all/?all"),
      Rule(Contains("include:*", combined), TRUE, "CRITICAL",
           "SPF usa include:* (wildcard)")>>
    \o [i \in 1..Len(values) |->
          Rule(Len(values[i]) > 255, FALSE, "WARN",
               "Record SPF molto lungo (>255 caratteri)")]

DmarcRules(values, combined) ==
    <<Rule(~Contains("v=dmarc1", combined), TRUE, "CRITICAL",
           "DMARC non valido (manca v=DMARC1)"),
      Rule(Contains("p=none", combined), FALSE, "WARN",
           "DMARC policy=none (protezione debole)"),
      Rule(~\E k \in {"rua=", "ruf="} : Contains(k, combined), FALSE, "INFO",
           "Nessun indirizzo di report (rua/ruf)"),
      Rule(Len(values) > 1, FALSE, "CRITICAL", "DMARC duplicato (piu record)")>>

\* the if/elif on the key length is one statement pair per value holding "p="
DkimRules(values, combined) ==
    <<Rule(~Contains("p=", combined), TRUE, "CRITICAL", "DKIM non valido (manca p=)"),
      Rule(~Contains("k=rsa", combined), FALSE, "WARN", "Record DKIM senza k=rsa")>>
    \o [i \in 1..Len(values) |->
          Only({IF n < 160
                THEN Rule(Contains("p=", values[i]), TRUE, "CRITICAL",
                          "Chiave DKIM molto corta (<1024 bit?)")
                ELSE Rule(Contains("p=", values[i]) /\ n < 300,
                          FALSE, "WARN", "Chiave DKIM <2048 bit") :
                n \in {Len(DkimKeyPart(values[i]))}})]
    \o <<Rule(Len(values) > 1, FALSE, "WARN", "Selettore DKIM duplicato")>>

BimiRules(values, combined) ==
    <<Rule(~Contains("v=bimi1", combined), TRUE, "CRITICAL",
           "BIMI non valido (manca v=BIMI1)"),
      Rule(~Contains("l=", combined), FALSE, "WARN", "Campo l= mancante (logo SVG)"),
      Rule(~Contains("a=", combined), FALSE, "WARN",
           "Campo a= mancante (VMC/certificato)"),
      Rule(Len(values) > 1, FALSE, "WARN", "Record BIMI duplicato")>>

\* the MX branch without its priority comparison
MxRulesEmptyOnly(values) ==
    IF Len(values) = 0
    THEN <<Rule(TRUE, TRUE, "CRITICAL", "Nessun record MX trovato")>>
    ELSE <<>>

MxRules(values) ==
    IF Len(values) = 0
    THEN <<Rule(TRUE, TRUE, "CRITICAL", "Nessun record MX trovato")>>
    ELSE LET prio == MxPriorities(values)
         IN <<Rule(Cardinality({prio[i] : i \in 1..Len(prio)}) = 1 /\ Len(prio) > 1,
                   FALSE, "WARN", "Tutti i record MX hanno la stessa priorita")>>

AddressRules(values) ==
    [i \in 1..Len(values) |->
       Rule(~NotAnAddress(values[i]) /\ is_private(values[i]), FALSE, "WARN",
            "Indirizzo " \o values[i] \o " privato")]

NsRules(values) ==
    <<Rule(Len(values) < 2, FALSE, "WARN", "Solo un nameserver configurato")>>

\* the branch of the if/elif chain that record_type selects
RulesFor(record_type, values) ==
    Only({CASE record_type = "SPF" -> SpfRules(values, combined)
            [] record_type = "DMARC" -> DmarcRules(values, combined)
            [] record_type = "DKIM" -> DkimRules(values, combined)
            [] record_type = "BIMI" -> BimiRules(values, combined)
            [] record_type = "MX" -> MxRules(values)
            [] record_type \in {"A", "AAAA"} -> AddressRules(values)
            [] record_type = "NS" -> NsRules(values)
            [] OTHER -> <<>> :
          combined \in {lower(join(" | ", values))}})

\* _check_best_practices(record_type, values) -> (severity, "; ".join(issues))
_check_best_practices(record_type, values) ==
    Only({[severity |-> end.severity, details |-> join("; ", end.issues)] :
          end \in {Only({ApplyRules(rules, "OK", <<>>) :
                           rules \in {RulesFor(record_type, values)}})}})


\* ---------------------------------------------------------- DNSAnalyzer.run
\* the name queried for a logical type (the f-strings of the dispatch)
QueryNamePlain(rtype, domain, selector) == domain

QueryName(rtype, domain, selector) ==
    CASE rtype = "DKIM" -> selector \o "._domainkey." \o domain
      [] rtype = "DMARC" -> "_dmarc." \o domain
      [] rtype = "BIMI" -> "default._bimi." \o domain
      [] OTHER -> domain

\* ------------------------------------------------------------- the resolver
\* What resolver.resolve(name, rtype) gives: the texts of the answer's
\* records, or an exception with its message.
Answer(records) == [ok |-> TRUE, records |-> records, msg |-> ""]
Failure(msg) == [ok |-> FALSE, records |-> <<>>, msg |-> msg]

\* the names the model's DNS knows, in the order the lists below are cut from
DomainPool == <<"a.it", "b.it", "c.it">>
SelectorPool == <<"s1", "s2", "s3">>

\* a text of n letters (a DKIM public key of that length)
RECURSIVE KeyText(_)
KeyText(n) ==
    IF n = 0 THEN ""
    ELSE Only({IF n % 2 = 1 THEN half \o half \o "m" ELSE half \o half :
               half \in {KeyText(n \div 2)}})

\* The record sets a name can hold, by the state of its administration.
Worlds == <<"healthy", "weak", "foreign", "empty", "down">>

HealthyRecords(kind, domain) ==
    CASE kind = "TXT" -> <<"google-site-verification=abc",
                           "v=spf1 include:_spf.google.com ~all">>
      [] kind = "DMARC" -> <<"v=DMARC1; p=reject; rua=mailto:dmarc@" \o domain>>
      [] kind = "DKIM" -> <<"v=DKIM1; k=rsa; p=" \o KeyText(392)>>
      [] kind = "BIMI" -> <<"v=BIMI1; l=https://" \o domain \o "/logo.svg; a=https://"
                              \o domain \o "/vmc.pem">>
      [] kind = "MX" -> <<"10 mx1." \o domain \o ".", "20 mx2." \o domain \o ".">>
      [] kind = "A" -> <<"93.184.216.34">>
      [] kind = "AAAA" -> <<"2606:2800:220:1:248:1893:25c8:1946">>
      [] kind = "NS" -> <<"ns1." \o domain \o ".", "ns2." \o domain \o ".">>
      [] kind = "SOA" -> <<"ns1." \o domain \o ". hostmaster." \o domain
                             \o ". 2024010101 7200 900 1209600 86400">>
      [] kind = "CAA" -> <<"0 issue letsencrypt.org">>
      [] OTHER -> <<>>

WeakRecords(kind, domain) ==
    CASE kind = "TXT" -> <<"v=spf1 a mx all">>
      [] kind = "DMARC" -> <<"v=DMARC1; p=quarantine">>
      [] kind = "DKIM" -> <<"v=DKIM1; k=rsa; p=" \o KeyText(216)>>
      [] kind = "BIMI" -> <<"v=BIMI1; l=https://" \o domain \o "/logo.svg">>
      [] kind = "MX" -> <<"10 mx1." \o domain \o ".", "10 mx2." \o domain \o ".">>
      [] kind = "A" -> <<"192.168.1.10", "93.184.216.34">>
      [] kind = "AAAA" -> <<"fe80::1">>
      [] kind = "NS" -> <<"ns1." \o domain \o ".">>
      [] kind = "SOA" -> <<"ns1." \o domain \o ". hostmaster." \o domain
                             \o ". 1 7200 900 1209600 86400">>
      [] kind = "CAA" -> <<"0 issue ;">>
      [] OTHER -> <<>>

\* records that are not what the logical type expects
ForeignRecords(kind, domain) ==
    CASE kind = "TXT" -> <<"google-site-verification=abc">>
      [] kind = "DMARC" -> <<"v=dmarc1; p=none">>
      [] kind = "DKIM" -> <<"v=DKIM1; p=MIGfMA0G", "k=ed25519">>
      [] kind = "BIMI" -> <<"v=spf1 -all">>
      [] kind = "MX" -> <<"mail." \o domain \o ".">>
      [] kind = "A" -> <<"not-an-address">>
      [] kind = "AAAA" -> <<"::1">>
      [] kind = "NS" -> <<"ns1." \o domain \o ".", "ns1." \o domain \o ".">>
      [] OTHER -> <<>>

WorldAnswer(world, kind, domain) ==
    CASE world = "healthy" ->
             IF kind = "CNAME"
             THEN Failure("The DNS response does not contain an answer to the question: "
                            \o domain \o ". IN CNAME")
             ELSE Answer(HealthyRecords(kind, domain))
      [] world = "weak" -> Answer(WeakRecords(kind, domain))
      [] world = "foreign" -> Answer(ForeignRecords(kind, domain))
      [] world = "empty" -> Answer(<<>>)
      [] OTHER -> Failure("The resolution lifetime expired")

\* position of x in the sequence seq, 0 if absent
IndexOf(x, seq) ==
    IF \E i \in 1..Len(seq) : seq[i] = x THEN CHOOSE i \in 1..Len(seq) : seq[i] = x ELSE 0

\* What a query (name, rtype) is about: the kind of record set, the domain
\* and the DKIM selector its name is built from.
QueryKind(name, rtype) ==
    IF rtype # "TXT"
    THEN (IF rtype \in {"MX", "A", "AAAA", "NS", "CNAME", "SOA", "CAA"} THEN rtype ELSE "unknown")
    ELSE IF Contains("._domainkey.", name) THEN "DKIM"
    ELSE IF FindFrom("_dmarc.", name, 1) = 1 THEN "DMARC"
    ELSE IF FindFrom("default._bimi.", name, 1) = 1 THEN "BIMI"
    ELSE "TXT"

QuerySelector(name, rtype) ==
    IF QueryKind(name, rtype) = "DKIM" THEN split("._domainkey.", name)[1] ELSE ""

QueryDomain(name, rtype) ==
    LET kind == QueryKind(name, rtype)
    IN CASE kind = "DKIM" -> split("._domainkey.", name)[2]
         [] kind = "DMARC" -> SubSeq(name, Len("_dmarc.") + 1, Len(name))
         [] kind = "BIMI" -> SubSeq(name, Len("default._bimi.") + 1, Len(name))
         [] OTHER -> name

KindOrder == <<"TXT", "DMARC", "DKIM", "BIMI", "MX", "A", "AAAA", "NS", "CNAME", "SOA", "CAA">>

\* The DNS data the resolver sees: each record set is in a world of its own,
\* the worlds going round from one domain, kind and selector to the next,
\* from a different start in each zone.
MixedZones == <<"mixed0", "mixed1", "mixed2", "mixed3", "mixed4">>

Zones == {MixedZones[i] : i \in 1..Len(MixedZones)}

WorldOf(z, name, rtype) ==
    Only({Worlds[(shift % Len(Worlds)) + 1] :
          shift \in {IndexOf(QueryDomain(name, rtype), DomainPool)
                       + IndexOf(QueryKind(name, rtype), KindOrder)
                       + IndexOf(QuerySelector(name, rtype), SelectorPool)
                       + IndexOf(z, MixedZones) - 1}})

\* What the DNS data z holds for (name, rtype): an unknown name or record
\* type is a failure
Lookup(z, name, rtype) ==
    IF IndexOf(QueryDomain(name, rtype), DomainPool) = 0
         \/ IndexOf(QueryKind(name, rtype), KindOrder) = 0
    THEN Failure("The DNS query name does not exist: " \o name \o ".")
    ELSE WorldAnswer(WorldOf(z, name, rtype), QueryKind(name, rtype),
                     QueryDomain(name, rtype))


\* analyzer.resolver.resolve(query_domain, rtype), with the records' to_text()
Resolve(z, name, rtype) == Lookup(z, name, rtype)

\* -------------------------------------------------------------------- state
VARIABLES
    zone,          \* the DNS data behind analyzer.resolver
    sortBuild,     \* how the build's unstable sort orders rows of equal key
    attempt,       \* the arguments of the constructor call, once made
    raised,        \* the exception the last call raised, "" if none
    analyzer,      \* the DNSAnalyzer object: domains, dkim_selectors, enable_best_practices
    selected,      \* selected_record_types of the last run
    record_types,  \* record_types of the last run
    out,           \* the list out of the last run when the loops ended
    calls,         \* the resolver calls of the last run, in order
    results,       \* self.results: the rows of the DataFrame the last run returned
    runs,          \* how many times run was called
    previous,      \* the caller's record of the run before the last: what it passed
                   \* and the rows it got back
    engine         \* one call of _check_best_practices: its arguments, its locals
                   \* severity and issues, and the statement it has reached

vars == <<zone, sortBuild, attempt, raised, analyzer, selected, record_types, out, calls,
          results, runs, previous, engine>>

\* an optional argument: None, or a list
NoneArg == [given |-> FALSE, list |-> <<>>]
ListArg(l) == [given |-> TRUE, list |-> l]
\* python: "arg or default" and "not arg" read an absent and an empty list alike
Falsy(arg) == ~arg.given \/ Len(arg.list) = 0

Min(a, b) == IF a < b THEN a ELSE b

DEFAULT_RECORD_TYPES ==
    <<"A", "AAAA", "MX", "NS", "CNAME", "TXT", "SPF", "DMARC", "DKIM", "BIMI", "SOA", "CAA">>

\* the list run substitutes in best-practice mode
SecurityTypes == <<"SPF", "DMARC", "DKIM", "BIMI", "MX", "A", "AAAA", "NS">>

\* ------------------------------------------------------------------- inputs
DomainLists == {SubSeq(DomainPool, 1, n) : n \in 0..Min(MaxDomains, Len(DomainPool))}

SelectorArgs ==
    {NoneArg} \cup {ListArg(SubSeq(SelectorPool, 1, n)) :
                      n \in 0..Min(MaxSelectors, Len(SelectorPool))}

Reverse(seq) == [i \in 1..Len(seq) |-> seq[Len(seq) + 1 - i]]

\* the record types a caller picks explicit lists from
SelectableTypes == <<"SPF", "DMARC", "DKIM", "BIMI">>

\* n selectable types from the start-th on, wrapping around
Window(start, n) ==
    [i \in 1..n |-> SelectableTypes[((start + i - 2) % Len(SelectableTypes)) + 1]]

\* the explicit lists: duplicate-free, of length at most MaxTypes, every
\* window of the selectable types
TypeLists ==
    {<<>>} \cup {Window(start, n) : start \in 1..Len(SelectableTypes),
                                    n \in 1..Min(MaxTypes, Len(SelectableTypes))}

TypeArgs == {NoneArg} \cup {ListArg(l) : l \in TypeLists}

\* ------------------------------------------------------ _query_and_collect
Row(domain, logical_type, selector, value, issues, severity) ==
    [Domain |-> domain, RecordType |-> logical_type, Selector |-> selector,
     Value |-> value, Issues |-> issues, Severity |-> severity]

\* the validity test of the "Filtri di validazione specifici"
ValidRecordUnfiltered(logical_type, rec) == TRUE

ValidRecord(logical_type, rec) ==
    CASE logical_type = "SPF" -> Contains("v=spf1", lower(rec))
      [] logical_type = "DMARC" -> Contains("v=DMARC1", rec)
      [] logical_type = "BIMI" ->
             Contains("v=BIMI1", upper(rec)) \/ Contains("v=bimi1", lower(rec))
      [] OTHER -> TRUE

ValidRecords(logical_type, records) ==
    SelectSeq(records, LAMBDA rec : ValidRecord(logical_type, rec))

\* sev, details before the missing-record override
Assess(enable_best_practices, logical_type, records) ==
    IF enable_best_practices
    THEN _check_best_practices(logical_type, records)
    ELSE [severity |-> "", details |-> ""]

\* Value, Issues and Severity of the try block's row, for the record texts
\* the resolver answered with (lines 255-276 and 283-285)
CollectNoOverride(enable_best_practices, logical_type, answered) ==
    Only({Only({[Value |-> join("|", records),
                 Issues |-> IF a.severity \in {"", "OK"} THEN "" ELSE a.details,
                 Severity |-> a.severity] :
                a \in {Assess(enable_best_practices, logical_type, records)}}) :
          records \in {ValidRecords(logical_type, answered)}})

Collect(enable_best_practices, logical_type, answered) ==
    Only({Only({LET missing == logical_type \in {"SPF", "DMARC", "BIMI"} /\ Len(records) = 0
                    sev == IF missing
                           THEN (IF enable_best_practices THEN "CRITICAL" ELSE "")
                           ELSE a.severity
                    details == IF missing
                               THEN "Nessun record " \o logical_type \o " valido"
                               ELSE a.details
                    final == IF missing THEN <<details>> ELSE records
                IN [Value |-> join("|", final),
                    Issues |-> IF sev \in {"", "OK"} THEN "" ELSE details,
                    Severity |-> sev] :
                a \in {Assess(enable_best_practices, logical_type, records)}}) :
          records \in {ValidRecords(logical_type, answered)}})

\* the row the try block appends
CollectedRow(self, domain, logical_type, selector, answered) ==
    Only({Row(domain, logical_type, selector, f.Value, f.Issues, f.Severity) :
          f \in {Collect(self.enable_best_practices, logical_type, answered)}})

\* the row of the except block, for the exception's text
FailureRowUnset(self, domain, logical_type, selector, msg) ==
    Row(domain, logical_type, selector, msg, "Errore di lookup", "")

FailureRow(self, domain, logical_type, selector, msg) ==
    Row(domain, logical_type, selector, msg, "Errore di lookup",
        IF self.enable_best_practices THEN "CRITICAL" ELSE "")

\* One call: the trace acc of the loops so far with one entry appended, the
\* row the call appends to out and the resolver call it made.  selector is
\* "" where the code passes None ("selector or ''").
Entry(row, resolverCalls) == [row |-> row, calls |-> resolverCalls]

Call(query_domain, rtype, domain, logical_type, selector, answer) ==
    [name |-> query_domain, rtype |-> rtype, domain |-> domain,
     logical_type |-> logical_type, selector |-> selector, answer |-> answer]

\* the entry of one call whose resolver answer is given
Collected(self, domain, query_domain, rtype, logical_type, selector, answer) ==
    Entry(IF answer.ok
          THEN CollectedRow(self, domain, logical_type, selector, answer.records)
          ELSE FailureRow(self, domain, logical_type, selector, answer.msg),
          <<Call(query_domain, rtype, domain, logical_type, selector, answer)>>)

\* _query_and_collect whose except block appends no row
_query_and_collect_silent(self, z, domain, query_domain, rtype, logical_type, selector, acc) ==
    Only({IF answer.ok
          THEN Append(acc, Collected(self, domain, query_domain, rtype, logical_type,
                                     selector, answer))
          ELSE acc :
          answer \in {Resolve(z, query_domain, rtype)}})

_query_and_collect(self, z, domain, query_domain, rtype, logical_type, selector, acc) ==
    Only({Append(acc, Collected(self, domain, query_domain, rtype, logical_type,
                                selector, answer)) :
          answer \in {Resolve(z, query_domain, rtype)}})

\* _err(domain, logical_type, msg)
_err_unset(domain, logical_type, msg) == Row(domain, logical_type, "", msg, msg, "")

_err(domain, logical_type, msg) == Row(domain, logical_type, "", msg, msg, "CRITICAL")

\* for selector in self.dkim_selectors, from the i-th on
RECURSIVE DkimLoop(_, _, _, _, _)
DkimLoop(self, z, domain, i, acc) ==
    IF i > Len(self.dkim_selectors) THEN acc
    ELSE Only({DkimLoop(self, z, domain, i + 1, appended) :
               appended \in {_query_and_collect(self, z, domain,
                                  QueryName("DKIM", domain, self.dkim_selectors[i]),
                                  "TXT", "DKIM", self.dkim_selectors[i], acc)}})

\* the body of "for rtype in record_types"
DispatchType(self, z, domain, rtype, acc) ==
    CASE rtype = "DKIM" ->
             IF Len(self.dkim_selectors) = 0
             THEN Append(acc, Entry(_err(domain, "DKIM", "Nessun selettore DKIM fornito"),
                                    <<>>))
             ELSE DkimLoop(self, z, domain, 1, acc)
      [] rtype \in {"DMARC", "SPF", "BIMI"} ->
             _query_and_collect(self, z, domain, QueryName(rtype, domain, ""), "TXT",
                                rtype, "", acc)
      [] OTHER ->
             _query_and_collect(self, z, domain, QueryName(rtype, domain, ""), rtype,
                                rtype, "", acc)

RECURSIVE TypeLoop(_, _, _, _, _, _)
TypeLoop(self, z, domain, types, j, acc) ==
    IF j > Len(types) THEN acc
    ELSE Only({TypeLoop(self, z, domain, types, j + 1, appended) :
               appended \in {DispatchType(self, z, domain, types[j], acc)}})

RECURSIVE DomainLoop(_, _, _, _, _)
DomainLoop(self, z, types, i, acc) ==
    IF i > Len(self.domains) THEN acc
    ELSE Only({DomainLoop(self, z, types, i + 1, appended) :
               appended \in {TypeLoop(self, z, self.domains[i], types, 1, acc)}})

\* record_types of run, lines 59-61
EffectiveTypesNarrowed(selected_record_types, enable_best_practices) ==
    IF enable_best_practices THEN SecurityTypes
    ELSE IF Falsy(selected_record_types) THEN DEFAULT_RECORD_TYPES
    ELSE selected_record_types.list

EffectiveTypes(selected_record_types, enable_best_practices) ==
    IF enable_best_practices /\ Falsy(selected_record_types) THEN SecurityTypes
    ELSE IF Falsy(selected_record_types) THEN DEFAULT_RECORD_TYPES
    ELSE selected_record_types.list

\* "out: List[Dict[str, str]] = []": the list a run starts from, whatever the
\* rows self.results holds
InitialOutKept(rows) == [i \in 1..Len(rows) |-> Entry(rows[i], <<>>)]

InitialOut(rows) == <<>>

\* the rows of a trace, and the resolver calls of a trace, in order
RowsOf(trace) == [i \in 1..Len(trace) |-> trace[i].row]

RECURSIVE CallsOf(_)
CallsOf(trace) ==
    IF Len(trace) = 0 THEN <<>> ELSE trace[1].calls \o CallsOf(Tail(trace))

\* the rows whose severity has rank r, in the order of rows
RowsOfRank(rows, r) == SelectSeq(rows, LAMBDA row : _severity_rank(row.Severity) = r)

\* DataFrame.sort_values(by="Severity", key=..._severity_rank, ascending=...)
\* with the default kind="quicksort", which is not a stable sort: the rows
\* come out ordered by rank, rows of equal rank in an order the build of the
\* sorting library fixes.  Two builds are modelled: one that happens to keep
\* equal rows in their order, one that reverses them.
sort_values(rows, ascending, build) ==
    LET group(r) == IF build = "stable" THEN RowsOfRank(rows, r)
                    ELSE Reverse(RowsOfRank(rows, r))
    IN IF ascending
       THEN group(0) \o group(1) \o group(2) \o group(3) \o group(4)
       ELSE group(4) \o group(3) \o group(2) \o group(1) \o group(0)

\* lines 118-122: the DataFrame of out, sorted unless empty
SortedFrameAscending(rows, build) ==
    IF Len(rows) = 0 THEN rows ELSE sort_values(rows, TRUE, build)

SortedFrame(rows, build) ==
    IF Len(rows) = 0 THEN rows ELSE sort_values(rows, FALSE, build)

\* --------------------------------------------------------------- operations
\* DNSAnalyzer.__init__: "if not domains: raise ValueError"
AcceptsAnyDomains(domains) == TRUE

AcceptsDomains(domains) == Len(domains) > 0

NoAnalyzer ==
    [exists |-> FALSE, domains |-> <<>>, dkim_selectors |-> <<>>,
     enable_best_practices |-> FALSE]

NoAttempt ==
    [made |-> FALSE, domains |-> <<>>, dkim_selectors |-> NoneArg,
     enable_best_practices |-> FALSE]

\* no call of _check_best_practices under way
EngineIdle ==
    [called |-> FALSE, record_type |-> "", values |-> <<>>, rules |-> <<>>, pc |-> 0,
     severity |-> "", issues |-> <<>>, trace |-> <<>>, fired |-> <<>>, returned |-> FALSE,
     result |-> [severity |-> "", details |-> ""]]

Init ==
    /\ zone \in Zones
    /\ sortBuild \in {"stable", "reversed"}
    /\ attempt = NoAttempt
    /\ raised = ""
    /\ analyzer = NoAnalyzer
    /\ selected = NoneArg
    /\ record_types = <<>>
    /\ out = <<>>
    /\ calls = <<>>
    /\ results = <<>>
    /\ runs = 0
    /\ previous = [selected |-> NoneArg, results |-> <<>>]
    /\ engine = EngineIdle

\* DNSAnalyzer(domains, dkim_selectors=..., enable_best_practices=...)
Construct(domains, dkim_selectors, enable_best_practices) ==
    /\ ~attempt.made
    /\ attempt' = [made |-> TRUE, domains |-> domains, dkim_selectors |-> dkim_selectors,
                   enable_best_practices |-> enable_best_practices]
    /\ IF AcceptsDomains(domains)
       THEN /\ analyzer' = [exists |-> TRUE, domains |-> domains,
                            dkim_selectors |-> IF Falsy(dkim_selectors) THEN <<>>
                                               ELSE dkim_selectors.list,
                            enable_best_practices |-> enable_best_practices]
            /\ raised' = ""
       ELSE /\ analyzer' = analyzer
            /\ raised' = "ValueError"
    /\ UNCHANGED <<zone, sortBuild, selected, record_types, out, calls, results, runs,
                   previous, engine>>

\* analyzer.run(selected_record_types)
Run(selected_record_types) ==
    /\ analyzer.exists
    /\ runs < MaxRuns
    /\ \E types \in {EffectiveTypes(selected_record_types, analyzer.enable_best_practices)} :
         \E trace \in {DomainLoop(analyzer, zone, types, 1, InitialOut(results))} :
           \E rows \in {RowsOf(trace)} :
              /\ selected' = selected_record_types
              /\ record_types' = types
              /\ out' = rows
              /\ calls' = CallsOf(trace)
              /\ results' = SortedFrame(rows, sortBuild)
    /\ runs' = runs + 1
    /\ previous' = [selected |-> selected, results |-> results]
    /\ raised' = ""
    /\ UNCHANGED <<zone, sortBuild, attempt, analyzer, engine>>

Next ==
    \/ \E domains \in DomainLists, dkim_selectors \in SelectorArgs,
          enable_best_practices \in BOOLEAN :
          Construct(domains, dkim_selectors, enable_best_practices)
    \/ \E selected_record_types \in TypeArgs : Run(selected_record_types)

Spec == Init /\ [][Next]_vars

\* ------------------------------------- _check_best_practices, one statement
\* ------------------------------------- at a time
\* The rule engine called on its own: the arguments are drawn when the call
\* is made, each step executes the next "if" block of the selected branch,
\* and the last step returns (severity, "; ".join(issues)).
MaxValues == 3

EngineTypes == <<"SPF", "DMARC", "DKIM", "BIMI", "MX", "A", "AAAA", "NS", "TXT">>

\* s repeated n times
RECURSIVE Repeat(_, _)
Repeat(s, n) == IF n = 0 THEN "" ELSE s \o Repeat(s, n - 1)

\* the record texts the value lists are made of, by logical type
ValuePool(record_type) ==
    CASE record_type = "SPF" ->
             <<"v=spf1 include:_spf.google.com ~all", "v=spf1 a mx all",
               "v=spf1 include:* -all",
               "v=spf1" \o Repeat(" include:_spf.mail-provider.it", 11) \o " ~all">>
      [] record_type = "DMARC" ->
             <<"v=DMARC1; p=reject; rua=mailto:dmarc@a.it", "v=DMARC1; p=quarantine",
               "v=dmarc1; p=none", "p=none; rua=mailto:dmarc@a.it">>
      [] record_type = "DKIM" ->
             <<"v=DKIM1; k=rsa; p=" \o KeyText(392), "v=DKIM1; k=rsa; p=" \o KeyText(216),
               "v=DKIM1; p=MIGfMA0G", "k=ed25519">>
      [] record_type = "BIMI" ->
             <<"v=BIMI1; l=https://a.it/logo.svg; a=https://a.it/vmc.pem",
               "v=BIMI1; l=https://a.it/logo.svg", "v=spf1 -all">>
      [] record_type = "MX" ->
             <<"10 mx1.a.it.", "10 mx2.a.it.", "20 mx3.a.it.", "mail.a.it.">>
      [] record_type = "A" -> <<"93.184.216.34", "192.168.1.10", "not-an-address">>
      [] record_type = "AAAA" -> <<"2606:2800:220:1:248:1893:25c8:1946", "fe80::1">>
      [] record_type = "NS" -> <<"ns1.a.it.", "ns2.a.it.">>
      [] OTHER -> <<"google-site-verification=abc">>

\* the lists of at most MaxValues texts of the pool
ValueLists(record_type) ==
    LET pool == ValuePool(record_type)
    IN UNION {{[i \in 1..n |-> pool[pick[i]]] : pick \in [1..n -> 1..Len(pool)]} :
              n \in 0..MaxValues}

\* _check_best_practices(record_type, values) entered: severity = "OK",
\* issues = [], the "if" blocks of the branch ahead
EngineCalled(record_type, values) ==
    [called |-> TRUE, record_type |-> record_type, values |-> values,
     rules |-> RulesFor(record_type, values), pc |-> 1,
     severity |-> "OK", issues |-> <<>>, trace |-> <<"OK">>, fired |-> <<>>,
     returned |-> FALSE, result |-> [severity |-> "", details |-> ""]]

EngineInit ==
    /\ zone = MixedZones[1]
    /\ sortBuild = "stable"
    /\ attempt = NoAttempt
    /\ raised = ""
    /\ analyzer = NoAnalyzer
    /\ selected = NoneArg
    /\ record_types = <<>>
    /\ out = <<>>
    /\ calls = <<>>
    /\ results = <<>>
    /\ runs = 0
    /\ previous = [selected |-> NoneArg, results |-> <<>>]
    /\ \E t \in 1..Len(EngineTypes) :
          \E values \in ValueLists(EngineTypes[t]) :
             engine = EngineCalled(EngineTypes[t], values)

\* the next "if" block: its condition, and when it holds the severity
\* statement and issues.append
EvaluateRule ==
    /\ engine.called /\ ~engine.returned
    /\ engine.pc <= Len(engine.rules)
    /\ \E r \in {engine.rules[engine.pc]} :
         \E after \in {ApplyRules(<<r>>, engine.severity, engine.issues)} :
            engine' = [engine EXCEPT
                         !.pc = @ + 1,
                         !.severity = after.severity,
                         !.issues = after.issues,
                         !.trace = Append(@, after.severity),
                         !.fired = IF r.fires THEN Append(@, r.level) ELSE @]
    /\ UNCHANGED <<zone, sortBuild, attempt, raised, analyzer, selected, record_types, out,
                   calls, results, runs, previous>>

\* return severity, "; ".join(issues)
Return ==
    /\ engine.called /\ ~engine.returned
    /\ engine.pc > Len(engine.rules)
    /\ engine' = [engine EXCEPT
                    !.returned = TRUE,
                    !.result = [severity |-> engine.severity,
                                details |-> join("; ", engine.issues)]]
    /\ UNCHANGED <<zone, sortBuild, attempt, raised, analyzer, selected, record_types, out,
                   calls, results, runs, previous>>

EngineNext == EvaluateRule \/ Return

EngineSpec == EngineInit /\ [][EngineNext]_vars

\* ------------------------------------------------------------------- claims
\* What the claims speak of, read from the state after a run.
Ran == analyzer.exists /\ runs > 0

Has(seq, x) == \E i \in 1..Len(seq) : seq[i] = x

\* |T without DKIM| + k of the row-count formula, for the type list T and the
\* selector list S
RowsPerDomain(T, S) ==
    Cardinality({i \in 1..Len(T) : T[i] # "DKIM"})
    + (IF ~Has(T, "DKIM") THEN 0 ELSE IF Len(S) > 0 THEN Len(S) ELSE 1)

\* the rows of rows that a query for (domain, logical type, selector) produced
RowsFor(rows, domain, logical_type, selector) ==
    {i \in 1..Len(rows) : /\ rows[i].Domain = domain
                          /\ rows[i].RecordType = logical_type
                          /\ rows[i].Selector = selector}

\* every resolver call of the last run produced exactly one row, and every
\* row but the synthetic DKIM rows comes from a call
OneRowPerQuery ==
    /\ \A i \in 1..Len(calls) :
          Cardinality(RowsFor(results, calls[i].domain, calls[i].logical_type,
                              calls[i].selector)) = 1
    /\ Len(results) = Len(calls)
                        + (IF Has(record_types, "DKIM") /\ Len(analyzer.dkim_selectors) = 0
                           THEN Len(analyzer.domains) ELSE 0)

\* C1 as stated: for every list T passed to run, duplicate-free (the empty
\* list included), run(T) returns |D| * (|T without DKIM| + k) rows, one per
\* query.
C1_RowCountAnyList ==
    (Ran /\ selected.given)
        => /\ Len(results) = Len(analyzer.domains)
                                * RowsPerDomain(selected.list, analyzer.dkim_selectors)
           /\ OneRowPerQuery

\* C1: for every non-empty duplicate-free list T passed to run, run(T)
\* returns exactly |D| * (|T without DKIM| + k) rows, k = 0 without DKIM in
\* T, |S| with DKIM and selectors, 1 with DKIM and no selector; every query
\* produces exactly one row.
C1_RowCount ==
    (Ran /\ selected.given /\ Len(selected.list) > 0)
        => /\ Len(results) = Len(analyzer.domains)
                                * RowsPerDomain(selected.list, analyzer.dkim_selectors)
           /\ OneRowPerQuery

\* a run of two domains, two selectors and the list [DKIM, BIMI] or [BIMI,
\* DKIM], with a resolver failure and an answer among its six queries
C1_Witness ==
    /\ Ran /\ selected.given /\ Len(selected.list) = 2 /\ Has(selected.list, "DKIM")
    /\ Len(analyzer.domains) = 2 /\ Len(analyzer.dkim_selectors) = 2
    /\ Len(results) = 6
    /\ \E i, j \in 1..Len(calls) : ~calls[i].answer.ok /\ calls[j].answer.ok

\* C2: in the rows run returns, severity rank never increases from a row to
\* the next.
C2_RankNonIncreasing ==
    Ran => \A i \in 1..(Len(results) - 1) :
              _severity_rank(results[i].Severity) >= _severity_rank(results[i + 1].Severity)

\* a run whose rows came out of the loops in another order than the returned
\* one, with three ranks among them
C2_Witness ==
    /\ Ran /\ out # results
    /\ Cardinality({_severity_rank(results[i].Severity) : i \in 1..Len(results)}) >= 3

\* position of a row in the list out of the last run
PositionInOut(row) == CHOOSE k \in 1..Len(out) : out[k] = row

\* C3 as stated: the final sort is stable, two rows of equal severity rank
\* are returned in the order in which the loops appended them.
C3_StableSort ==
    Ran => \A i, j \in 1..Len(results) :
              (i < j /\ _severity_rank(results[i].Severity)
                          = _severity_rank(results[j].Severity))
                  => PositionInOut(results[i]) < PositionInOut(results[j])

\* the row of the returned frame that the i-th resolver call produced
RowOfCall(i) ==
    results[CHOOSE k \in 1..Len(results) :
                k \in RowsFor(results, calls[i].domain, calls[i].logical_type,
                              calls[i].selector)]

\* how many resolver calls the request of the last run asks for
QueriesAsked ==
    Len(analyzer.domains)
      * (Cardinality({i \in 1..Len(record_types) : record_types[i] # "DKIM"})
         + (IF Has(record_types, "DKIM") THEN Len(analyzer.dkim_selectors) ELSE 0))

\* C4: a resolver failure stops nothing: every query of the request is
\* issued and has its row, the row of a failed query carries the failure
\* message as Value, "Errore di lookup" as Issues and Severity CRITICAL in
\* best-practice mode, "" otherwise, and run raises nothing.
C4_FailureRows ==
    Ran => /\ raised = ""
           /\ Len(calls) = QueriesAsked
           /\ \A i \in 1..Len(calls) :
                 /\ RowsFor(results, calls[i].domain, calls[i].logical_type,
                            calls[i].selector) # {}
                 /\ ~calls[i].answer.ok
                      => /\ RowOfCall(i).Value = calls[i].answer.msg
                         /\ RowOfCall(i).Issues = "Errore di lookup"
                         /\ RowOfCall(i).Severity
                              = (IF analyzer.enable_best_practices THEN "CRITICAL" ELSE "")

\* a best-practice run where a query fails and a later query is answered
C4_Witness ==
    /\ Ran /\ analyzer.enable_best_practices
    /\ \E i, j \in 1..Len(calls) :
          /\ i < j /\ ~calls[i].answer.ok /\ calls[j].answer.ok
          /\ RowOfCall(i).Severity = "CRITICAL"
          /\ RowOfCall(i).Value = "The resolution lifetime expired"

\* C5: with DKIM requested and no selector, each domain gets exactly one
\* DKIM row, with empty Selector and Severity CRITICAL, in either mode; no
\* resolver call is made for DKIM, and the domain's other types are queried.
C5_NoSelectorRow ==
    (Ran /\ Has(record_types, "DKIM") /\ Len(analyzer.dkim_selectors) = 0)
        => \A d \in 1..Len(analyzer.domains) :
              /\ Cardinality({i \in 1..Len(results) :
                                /\ results[i].Domain = analyzer.domains[d]
                                /\ results[i].RecordType = "DKIM"}) = 1
              /\ \A i \in 1..Len(results) :
                    (results[i].Domain = analyzer.domains[d]
                       /\ results[i].RecordType = "DKIM")
                        => results[i].Selector = "" /\ results[i].Severity = "CRITICAL"
              /\ \A i \in 1..Len(calls) :
                    /\ calls[i].logical_type # "DKIM"
                    /\ ~Contains("_domainkey", calls[i].name)
              /\ \A t \in 1..Len(record_types) :
                    record_types[t] # "DKIM"
                        => \E i \in 1..Len(calls) :
                              /\ calls[i].domain = analyzer.domains[d]
                              /\ calls[i].logical_type = record_types[t]

\* a run without best practices over two domains, DKIM and another type
\* chosen, no selector configured
C5_Witness ==
    /\ Ran /\ ~analyzer.enable_best_practices /\ Len(analyzer.dkim_selectors) = 0
    /\ selected.given /\ Len(selected.list) = 2 /\ Has(selected.list, "DKIM")
    /\ Len(analyzer.domains) = 2 /\ Len(calls) = 2 /\ Len(results) = 4

\* C6: constructing an analyzer with an empty domain list raises the
\* ValueError whatever the selectors and the flag; no analyzer exists, so
\* nothing runs and no resolver call is made.
C6_EmptyDomainsRejected ==
    (attempt.made /\ Len(attempt.domains) = 0)
        => /\ raised = "ValueError"
           /\ ~analyzer.exists
           /\ runs = 0
           /\ calls = <<>>

\* a constructor call with no domain, selectors given and best practices on
C6_Witness ==
    /\ attempt.made /\ Len(attempt.domains) = 0
    /\ attempt.dkim_selectors.given /\ Len(attempt.dkim_selectors.list) > 0
    /\ attempt.enable_best_practices

\* C7: a second run with the same record types against the same DNS data
\* returns the rows of the first, in the same order.
C7_Idempotent ==
    (Ran /\ runs >= 2 /\ previous.selected = selected) => results = previous.results

\* two runs with the same list, whose rows include a failure row and rows of
\* equal rank that the build's sort reorders
C7_Witness ==
    /\ Ran /\ runs >= 2 /\ previous.selected = selected
    /\ sortBuild = "reversed" /\ out # results
    /\ \E i \in 1..Len(calls) : ~calls[i].answer.ok
    /\ \E i \in 1..Len(calls) : calls[i].answer.ok

\* none of the answered records passes the validity filter of the type
NoValidRecord(logical_type, records) ==
    \A k \in 1..Len(records) : ~ValidRecord(logical_type, records[k])

\* C8: for SPF, DMARC and BIMI, an answer none of whose records passes the
\* type's filter (an empty answer included) gives the row the marker
\* "Nessun record <TYPE> valido" as Value, with Severity CRITICAL in
\* best-practice mode and "" otherwise; for every other type the Value is
\* all the answered records, joined, and never a marker.
C8_MissingRecordMarker ==
    Ran => \A i \in 1..Len(calls) :
              calls[i].answer.ok
                 => IF calls[i].logical_type \in {"SPF", "DMARC", "BIMI"}
                    THEN NoValidRecord(calls[i].logical_type, calls[i].answer.records)
                            => /\ RowOfCall(i).Value
                                    = "Nessun record " \o calls[i].logical_type \o " valido"
                               /\ RowOfCall(i).Severity
                                    = (IF analyzer.enable_best_practices
                                       THEN "CRITICAL" ELSE "")
                    ELSE RowOfCall(i).Value = join("|", calls[i].answer.records)

\* a best-practice run where the DMARC answer holds a record that is not a
\* DMARC record and the SPF or BIMI answer is empty
C8_Witness ==
    /\ Ran
    /\ \E i \in 1..Len(calls) :
          /\ calls[i].answer.ok /\ calls[i].logical_type = "DMARC"
          /\ Len(calls[i].answer.records) > 0
          /\ analyzer.enable_best_practices
          /\ RowOfCall(i).Value = "Nessun record DMARC valido"
          /\ RowOfCall(i).Severity = "CRITICAL"
    /\ \E i \in 1..Len(calls) :
          /\ calls[i].answer.ok /\ calls[i].logical_type \in {"SPF", "BIMI"}
          /\ Len(calls[i].answer.records) = 0

\* the queries run is to make for domain d and logical type t with the
\* selectors S: <<query name, physical type, logical type, selector>>
QueriesFor(d, t, S) ==
    CASE t = "DKIM" -> [k \in 1..Len(S) |-> <<S[k] \o "._domainkey." \o d, "TXT", t, S[k]>>]
      [] t = "DMARC" -> << <<"_dmarc." \o d, "TXT", t, "">> >>
      [] t = "SPF" -> << <<d, "TXT", t, "">> >>
      [] t = "BIMI" -> << <<"default._bimi." \o d, "TXT", t, "">> >>
      [] OTHER -> << <<d, t, t, "">> >>

\* the queries for the domains from the i-th on, each with the types from
\* the j-th on first: <<domain, query name, physical type, logical type, selector>>
RECURSIVE QueriesFrom(_, _, _, _, _)
QueriesFrom(D, T, S, i, j) ==
    IF i > Len(D) THEN <<>>
    ELSE IF j > Len(T) THEN QueriesFrom(D, T, S, i + 1, 1)
    ELSE Only({[k \in 1..Len(q) |-> <<D[i]>> \o q[k]] : q \in {QueriesFor(D[i], T[j], S)}})
         \o QueriesFrom(D, T, S, i, j + 1)

\* C9: the resolver calls of a run are, domain by domain and type by type,
\* (sel._domainkey.d, TXT) per selector in order for DKIM, (_dmarc.d, TXT)
\* for DMARC, (d, TXT) for SPF, (default._bimi.d, TXT) for BIMI and (d, t)
\* for another type t; the row of a call has the logical type as RecordType
\* and d as Domain, and only DKIM rows have a Selector.
C9_QueryNames ==
    Ran => \A asked \in {QueriesFrom(analyzer.domains, record_types,
                                      analyzer.dkim_selectors, 1, 1)} :
              /\ Len(calls) = Len(asked)
              /\ \A i \in 1..Len(asked) :
                    /\ calls[i].name = asked[i][2]
                    /\ calls[i].rtype = asked[i][3]
                    /\ \E k \in 1..Len(results) :
                          /\ results[k].Domain = asked[i][1]
                          /\ results[k].RecordType = asked[i][4]
                          /\ results[k].Selector = asked[i][5]
              /\ \A k \in 1..Len(results) :
                    /\ Has(record_types, results[k].RecordType)
                    /\ Has(analyzer.domains, results[k].Domain)
                    /\ results[k].Selector # "" => results[k].RecordType = "DKIM"

\* a run of [DMARC, DKIM] or [DKIM, DMARC] over two domains and two
\* selectors: the last DKIM query and the DMARC query of the second domain
C9_Witness ==
    /\ Ran /\ Has(record_types, "DMARC") /\ Has(record_types, "DKIM")
    /\ \E i \in 1..Len(calls) :
          calls[i].name = "s2._domainkey.b.it" /\ calls[i].rtype = "TXT"
    /\ \E i \in 1..Len(calls) : calls[i].name = "_dmarc.b.it" /\ calls[i].rtype = "TXT"
    /\ \E k \in 1..Len(results) :
          results[k].RecordType = "DKIM" /\ results[k].Selector = "s2"

\* C10: run processes the caller's list when one is given and not empty;
\* otherwise SPF, DMARC, DKIM, BIMI, MX, A, AAAA, NS in best-practice mode
\* and the twelve default types without it.  Best-practice mode leaves a
\* chosen list as it is.
C10_ProcessedTypes ==
    Ran => /\ record_types
                = (IF selected.given /\ Len(selected.list) > 0 THEN selected.list
                   ELSE IF analyzer.enable_best_practices
                   THEN <<"SPF", "DMARC", "DKIM", "BIMI", "MX", "A", "AAAA", "NS">>
                   ELSE <<"A", "AAAA", "MX", "NS", "CNAME", "TXT", "SPF", "DMARC", "DKIM",
                          "BIMI", "SOA", "CAA">>)
           /\ {results[k].RecordType : k \in 1..Len(results)}
                = {record_types[t] : t \in 1..Len(record_types)}

\* a best-practice run of a chosen list that is not part of the security
\* list's order, and before it a run of the same analyzer left to the defaults
C10_Witness ==
    /\ Ran /\ runs >= 2 /\ analyzer.enable_best_practices
    /\ selected = ListArg(<<"BIMI", "SPF">>)
    /\ {results[k].RecordType : k \in 1..Len(results)} = {"BIMI", "SPF"}
    /\ Falsy(previous.selected) /\ Len(previous.results) >= 8

\* C11 as stated: in every row returned by run, whatever the request, the
\* best-practice setting and the resolver's behaviour (lookup failures
\* included), Issues is empty whenever Severity is unset ("") or OK.
C11_IssuesEmptyWhenUnsetOrOk ==
    Ran => \A k \in 1..Len(results) :
              results[k].Severity \in {"", "OK"} => results[k].Issues = ""

\* ---------------------------------------------------- the rule engine alone
\* the call of the rule engine has returned
Returned == engine.called /\ engine.returned

\* the positions of values whose leading token is a number
NumericLead(values) == {i \in 1..Len(values) : isdigit(FirstToken(values[i]))}

LeadingPriority(val) == int(FirstToken(val))

AtLeast(severity, level) == _severity_rank(severity) >= _severity_rank(level)

\* C12 as stated: for MX the rule engine returns CRITICAL for an empty value
\* list, and at least WARN whenever two or more values share an identical
\* leading numeric priority, also when other values carry another priority
\* or a non-numeric leading token.
C12_SharedPriorityWarns ==
    (Returned /\ engine.record_type = "MX")
        => /\ engine.values = <<>> => engine.result.severity = "CRITICAL"
           /\ (\E i, j \in NumericLead(engine.values) :
                   /\ i # j
                   /\ LeadingPriority(engine.values[i]) = LeadingPriority(engine.values[j]))
                => AtLeast(engine.result.severity, "WARN")

\* C12: for MX the rule engine returns CRITICAL for an empty value list, and
\* at least WARN whenever two or more values carry a leading numeric
\* priority and all the numeric priorities are identical, values with a
\* non-numeric leading token left aside.
C12_AllSamePriorityWarns ==
    (Returned /\ engine.record_type = "MX")
        => /\ engine.values = <<>> => engine.result.severity = "CRITICAL"
           /\ (/\ Cardinality(NumericLead(engine.values)) >= 2
               /\ \A i, j \in NumericLead(engine.values) :
                     LeadingPriority(engine.values[i]) = LeadingPriority(engine.values[j]))
                => AtLeast(engine.result.severity, "WARN")

\* two records of priority 10 around one without a priority
C12_Witness ==
    /\ Returned /\ engine.record_type = "MX"
    /\ engine.values = <<"10 mx1.a.it.", "mail.a.it.", "10 mx2.a.it.">>
    /\ engine.result.severity = "WARN"
    /\ engine.result.details = "Tutti i record MX hanno la stessa priorita"

\* the highest of a non-empty set of levels in unset < OK < INFO < WARN < CRITICAL
MaxLevel(levels) ==
    CHOOSE l \in levels : \A m \in levels : _severity_rank(l) >= _severity_rank(m)

\* C13: within one call of the rule engine, for every logical type and
\* value list, the running severity starts at OK and never decreases from
\* one rule to the next, and the returned severity is the maximum of OK and
\* the levels of the rules that fired, whatever their order.
C13_SeverityMonotone ==
    engine.called
        => /\ engine.trace[1] = "OK"
           /\ engine.severity = engine.trace[Len(engine.trace)]
           /\ \A k \in 1..(Len(engine.trace) - 1) :
                 _severity_rank(engine.trace[k + 1]) >= _severity_rank(engine.trace[k])
           /\ engine.returned
                => /\ engine.result.severity
                        = MaxLevel({"OK"} \cup {engine.fired[k] : k \in 1..Len(engine.fired)})
                   /\ engine.result
                        = _check_best_practices(engine.record_type, engine.values)

\* a call in which a rule of a lower level fired after one of a higher level,
\* and one in which a plain assignment followed a promotion
C13_Witness ==
    /\ Returned
    /\ engine.result.severity = "CRITICAL"
    /\ \E k, m \in 1..Len(engine.fired) :
          k < m /\ _severity_rank(engine.fired[k]) > _severity_rank(engine.fired[m])
    /\ \E k \in 1..Len(engine.rules) :
          /\ engine.rules[k].fires
          /\ ~engine.rules[k].assigned
          /\ \E m \in (k + 1)..Len(engine.rules) :
                engine.rules[m].fires /\ engine.rules[m].assigned

\* ------------------------------------------------------- the rows of a run
\* C14: every row returned by run whose Severity is INFO, WARN or CRITICAL
\* has a non-empty Issues: rows assessed by the rule engine, marker rows,
\* lookup-failure rows and DKIM no-selector rows alike.
C14_SevereRowsExplained ==
    Ran => \A k \in 1..Len(results) :
              results[k].Severity \in {"INFO", "WARN", "CRITICAL"}
                  => results[k].Issues # ""

\* a best-practice run that returned an INFO row and a WARN row of the rule
\* engine, a marker row and a lookup-failure row
C14_Witness ==
    /\ Ran /\ analyzer.enable_best_practices
    /\ \E k \in 1..Len(results) :
          results[k].Severity = "INFO" /\ results[k].Issues # ""
    /\ \E k \in 1..Len(results) :
          results[k].Severity = "WARN" /\ results[k].Issues # ""
    /\ \E k \in 1..Len(results) :
          /\ results[k].Severity = "CRITICAL"
          /\ results[k].Issues = "Errore di lookup"
    /\ \E k \in 1..Len(results) :
          /\ results[k].Severity = "CRITICAL"
          /\ results[k].Value = results[k].Issues
          /\ Contains("Nessun record", results[k].Value)

\* the synthetic row of a DKIM request without selectors
NoSelectorRow(row) ==
    /\ row.RecordType = "DKIM"
    /\ row.Selector = ""
    /\ row.Value = "Nessun selettore DKIM fornito"
    /\ Len(analyzer.dkim_selectors) = 0

\* without best practices every row has Severity "", but for the DKIM
\* no-selector row, which is CRITICAL
UnsetWithoutBestPractices ==
    \A k \in 1..Len(results) :
       IF NoSelectorRow(results[k]) THEN results[k].Severity = "CRITICAL"
       ELSE results[k].Severity = ""

\* a row the sort returned before a row it was appended after is a DKIM
\* no-selector row
OnlyNoSelectorRowsMoveAhead ==
    \A i, j \in 1..Len(results) :
       (i < j /\ PositionInOut(results[i]) > PositionInOut(results[j]))
           => NoSelectorRow(results[i])

\* C15 as stated: with best-practice mode off every row returned by run has
\* Severity "", whatever the resolver returns or however it fails, but for
\* the synthetic DKIM no-selector row, which is CRITICAL; consequently that
\* row is the only one the final sort can move ahead of others.
C15_OnlyNoSelectorRowRanked ==
    (Ran /\ ~analyzer.enable_best_practices)
        => UnsetWithoutBestPractices /\ OnlyNoSelectorRowsMoveAhead

\* the answer holds records, none with the version token spelled v=DMARC1
MisspelledDmarc(records) ==
    /\ Len(records) > 0
    /\ \A k \in 1..Len(records) : ~Contains("v=DMARC1", records[k])

\* C16: no DMARC row returned by run carries the rule engine's issue
\* "DMARC non valido (manca v=DMARC1)"; a DMARC answer whose version token is
\* not spelled exactly v=DMARC1 is reported as "Nessun record DMARC valido"
\* only, with none of the other DMARC issues (p=none, rua/ruf, duplicate).
C16_MissingVersionNeverReported ==
    Ran => /\ \A k \in 1..Len(results) :
                 results[k].RecordType = "DMARC"
                     => ~Contains("DMARC non valido", results[k].Issues)
           /\ \A i \in 1..Len(calls) :
                 (/\ calls[i].logical_type = "DMARC"
                  /\ calls[i].answer.ok
                  /\ MisspelledDmarc(calls[i].answer.records))
                     => /\ RowOfCall(i).Value = "Nessun record DMARC valido"
                        /\ RowOfCall(i).Issues
                             = (IF analyzer.enable_best_practices
                                THEN "Nessun record DMARC valido" ELSE "")

\* a best-practice run whose DMARC answer is "v=dmarc1; p=none": the row
\* carries the marker, and neither the policy nor the report issue
C16_Witness ==
    /\ Ran /\ analyzer.enable_best_practices
    /\ \E i \in 1..Len(calls) :
          /\ calls[i].logical_type = "DMARC"
          /\ calls[i].answer.ok
          /\ calls[i].answer.records = <<"v=dmarc1; p=none">>
          /\ RowOfCall(i).Issues = "Nessun record DMARC valido"
          /\ RowOfCall(i).Severity = "CRITICAL"
    /\ \E k \in 1..Len(results) :
          /\ results[k].RecordType = "DMARC"
          /\ Contains("v=DMARC1", results[k].Value)

====
